---- MODULE Spec2Model ----
(***************************************************************************)
(* Authentication session lifecycle of the RN_FastAPI client:              *)
(*   - the zustand auth store (useAuthStore: token, isAuthenticated),      *)
(*   - the endpoint resolver run on mount of LoginScreen                   *)
(*     (getServerUrls, findWorkingServer),                                 *)
(*   - the login orchestration (handleLogin) and the logout handler        *)
(*     (handleLogout), with the stack navigation between the two screens.  *)
(*                                                                         *)
(* JavaScript runs every handler to its next await without interleaving,   *)
(* so one action is one synchronous run of a handler or of the             *)
(* continuation of an await.                                               *)
(***************************************************************************)
EXTENDS Integers, Sequences, FiniteSets, TLC

VARIABLES
    env,              \* Platform.OS and the three @env values read by getServerUrls
    pingResult,       \* what GET <url>/ping does, for every candidate url
    serverUrls,       \* findWorkingServer: const serverUrls
    probeIdx,         \* findWorkingServer: position of the for loop (1-based)
    resolverPc,       \* findWorkingServer: "fetch", "json", "returned", "fellThrough" or "rejected"
    probed,           \* the urls a GET /ping was issued to, in order
    workingServerUrl, \* LoginScreen state
    username,         \* LoginScreen state
    password,         \* LoginScreen state
    isLoading,        \* LoginScreen state
    token,            \* useAuthStore state
    isAuthenticated,  \* useAuthStore state
    screen,           \* the screen on top of the navigation stack
    pending,          \* the activations of handleLogin suspended at an await, oldest first
    lastEffects       \* what the last run of handleLogin/handleLogout did, in program order

vars == <<env, pingResult, serverUrls, probeIdx, resolverPc, probed, workingServerUrl,
          username, password, isLoading, token, isAuthenticated, screen, pending,
          lastEffects>>

resolverVars == <<env, pingResult, serverUrls, probeIdx, resolverPc, probed, workingServerUrl>>
storeVars == <<token, isAuthenticated>>

-----------------------------------------------------------------------------
(* JavaScript values                                                       *)

Null == "<null>"
Undefined == "<undefined>"

\* JavaScript truthiness of a string-or-null-or-undefined value
Truthy(v) == v /= Null /\ v /= Undefined /\ v /= ""

\* a || b
OrElse(a, b) == IF Truthy(a) THEN a ELSE b

-----------------------------------------------------------------------------
(* Candidate list: getServerUrls                                           *)

FallbackEmulator == "http://10.0.2.2:8000"
FallbackLocal == "http://localhost:8000"
FallbackDevice == "http://127.0.0.1:8000"
CustomUrl == "http://192.168.1.5:8000"

Platforms == {"android", "ios"}
EnvValues == {Undefined, CustomUrl}
Environments ==
    [OS : Platforms, API_URL_EMULATOR : EnvValues, API_URL_LOCAL : EnvValues,
     API_URL_DEVICE : EnvValues]

\* [...new Set(urls)]: keeps the first occurrence of every element, in order
RECURSIVE Dedup(_)
Dedup(s) ==
    IF s = <<>> THEN <<>>
    ELSE LET front == Dedup(SubSeq(s, 1, Len(s) - 1))
             last == s[Len(s)]
         IN IF \E i \in 1..Len(front) : front[i] = last THEN front
            ELSE Append(front, last)

\* mutant: the duplicates are not filtered out
getServerUrlsNoDedup(e) ==
    (IF e.OS = "android"
     THEN <<OrElse(e.API_URL_EMULATOR, FallbackEmulator)>>
     ELSE <<>>)
      \o <<OrElse(e.API_URL_LOCAL, FallbackLocal)>>
      \o <<OrElse(e.API_URL_DEVICE, FallbackDevice)>>

getServerUrls(e) ==
    LET emu == IF e.OS = "android"
               THEN <<OrElse(e.API_URL_EMULATOR, FallbackEmulator)>>
               ELSE <<>>
        urls == emu \o <<OrElse(e.API_URL_LOCAL, FallbackLocal)>>
                    \o <<OrElse(e.API_URL_DEVICE, FallbackDevice)>>
    IN Dedup(urls)

Range(s) == {s[i] : i \in 1..Len(s)}

-----------------------------------------------------------------------------
(* The network                                                             *)

\* GET /ping: the fetch rejects, answers with a failure status, answers with a
\* success status and a body that is not JSON, or with a success status and JSON;
\* or it is never answered: the fetch is given no timeout and no abort signal,
\* so its promise then never settles
PingOutcomes == {"error", "notok", "ok_badjson", "ok_json", "never"}

Tokens == {"abc123", "tok2"}
Details == {"Incorrect username or password"}
Usernames == {"", "johndoe"}
Passwords == {"", "password123"}

\* bodies of POST /token answers: not JSON, or a JSON object whose fields
\* access_token and detail may be missing (reading them gives undefined)
Body(dec, tok, det) == [decodable |-> dec, access_token |-> tok, detail |-> det]
Bodies ==
    {Body(FALSE, Undefined, Undefined)}
      \cup {Body(TRUE, t, Undefined) : t \in Tokens \cup {"", Undefined}}
      \cup {Body(TRUE, Undefined, d) : d \in Details}
Responses == [ok : BOOLEAN, body : Bodies]
NoResponse == [ok |-> FALSE, body |-> Body(FALSE, Undefined, Undefined)]


-----------------------------------------------------------------------------
(* Auth store: useAuthStore                                                *)

\* mutant: login stores the token and forgets the flag
StoreLoginTokenOnly(t) == [token |-> t, isAuthenticated |-> isAuthenticated]

\* mutant: a later login does not replace the token already stored
StoreLoginKeepsFirstToken(t) ==
    [token |-> IF token = Null THEN t ELSE token, isAuthenticated |-> TRUE]

\* login: (token) => set({ token, isAuthenticated: true })
StoreLogin(t) == [token |-> t, isAuthenticated |-> TRUE]

\* mutant: logout clears the flag and leaves the token
StoreLogoutKeepsToken == [token |-> token, isAuthenticated |-> FALSE]

\* logout: () => set({ token: null, isAuthenticated: false })
StoreLogout == [token |-> Null, isAuthenticated |-> FALSE]

-----------------------------------------------------------------------------
(* What a handler does, as seen from outside it                            *)

Effect(op, x, y) == [op |-> op, x |-> x, y |-> y]
AlertFx(title, message) == Effect("alert", title, message)
FetchFx(method, url, path) == Effect(method, url, path)
LoginFx(t) == Effect("login", t, "")
LogoutFx == Effect("logout", "", "")
NavigateFx(to) == Effect("navigate", to, "")

\* values a catch clause can receive
ErrorObj(msg) == [isError |-> TRUE, message |-> msg]
\* fetch rejects with a TypeError when no response is obtained
NetworkError == ErrorObj("Network request failed")
\* response.json() rejects with a SyntaxError when the body is not JSON
JsonSyntaxError == ErrorObj("JSON Parse error")

-----------------------------------------------------------------------------
(* Endpoint resolver: findWorkingServer                                    *)

Passes(url) == pingResult[url] = "ok_json"

\* mutant: the return after setWorkingServerUrl is missing, the loop goes on
OnProbeSuccessNoReturn(idx) ==
    IF idx < Len(serverUrls)
    THEN [pc |-> "fetch", idx |-> idx + 1, url |-> serverUrls[idx]]
    ELSE [pc |-> "fellThrough", idx |-> idx, url |-> serverUrls[idx]]

\* setWorkingServerUrl(url); return
OnProbeSuccess(idx) ==
    [pc |-> "returned", idx |-> idx, url |-> serverUrls[idx]]

\* mutant: the first candidate that fails ends the pass with an error
OnProbeFailureAborts(idx) ==
    [pc |-> "rejected", idx |-> idx, url |-> workingServerUrl]

\* the catch clause, or a response that is not ok: on to the next iteration of
\* the for loop, or out of it to the final console.log
OnProbeFailure(idx) ==
    IF idx < Len(serverUrls)
    THEN [pc |-> "fetch", idx |-> idx + 1, url |-> workingServerUrl]
    ELSE [pc |-> "fellThrough", idx |-> idx, url |-> workingServerUrl]

\* the resolver moves to r; entering a new iteration issues its GET /ping
ResolverGoes(r) ==
    /\ resolverPc' = r.pc
    /\ probeIdx' = r.idx
    /\ workingServerUrl' = r.url
    /\ probed' = IF r.pc = "fetch" /\ r.idx /= probeIdx
                 THEN Append(probed, serverUrls[r.idx])
                 ELSE probed
    /\ UNCHANGED <<env, pingResult, serverUrls>>

\* await fetch(`${url}/ping`) settles; if (response.ok)
ProbeFetchSettles ==
    /\ resolverPc = "fetch"
    /\ pingResult[serverUrls[probeIdx]] /= "never"
    /\ LET out == pingResult[serverUrls[probeIdx]]
       IN IF out \in {"ok_json", "ok_badjson"}
          THEN ResolverGoes([pc |-> "json", idx |-> probeIdx, url |-> workingServerUrl])
          ELSE ResolverGoes(OnProbeFailure(probeIdx))
    /\ UNCHANGED <<username, password, isLoading, token, isAuthenticated, screen,
                   pending, lastEffects>>

\* await response.json() settles
ProbeJsonSettles ==
    /\ resolverPc = "json"
    /\ IF pingResult[serverUrls[probeIdx]] = "ok_json"
       THEN ResolverGoes(OnProbeSuccess(probeIdx))
       ELSE ResolverGoes(OnProbeFailure(probeIdx))
    /\ UNCHANGED <<username, password, isLoading, token, isAuthenticated, screen,
                   pending, lastEffects>>

-----------------------------------------------------------------------------
(* Login screen                                                            *)

\* onChangeText={setUsername}
SetUsername(v) ==
    /\ screen = "Login"
    /\ v /= username
    /\ username' = v
    /\ UNCHANGED <<resolverVars, password, isLoading, storeVars, screen, pending,
                   lastEffects>>

\* onChangeText={setPassword}
SetPassword(v) ==
    /\ screen = "Login"
    /\ v /= password
    /\ password' = v
    /\ UNCHANGED <<resolverVars, username, isLoading, storeVars, screen, pending,
                   lastEffects>>

\* mutant: the button forgets the missing endpoint
LoginButtonDisabledIgnoresServer == isLoading

\* mutant: the button forgets the busy flag
LoginButtonDisabledIgnoresLoading == ~Truthy(workingServerUrl)

\* disabled={isLoading || !workingServerUrl}
LoginButtonDisabled == isLoading \/ ~Truthy(workingServerUrl)

\* mutant: only the username is checked
CredentialsMissingUsernameOnly(u, p) == ~Truthy(u)

\* if (!username || !password)
CredentialsMissing(u, p) == ~Truthy(u) \/ ~Truthy(p)

\* mutant: the request goes to the first candidate, resolved or not
LoginRequestFirstCandidate(u, p) ==
    [pc |-> "fetch", url |-> serverUrls[1], path |-> "/token",
     form |-> <<u, p>>, response |-> NoResponse]

\* fetch(`${workingServerUrl}/token`, { method: 'POST', ..., body: formString })
LoginRequest(u, p) ==
    [pc |-> "fetch", url |-> workingServerUrl, path |-> "/token",
     form |-> <<u, p>>, response |-> NoResponse]

\* the two early returns of handleLogin: the alert shown for username u,
\* password p and resolved endpoint w, or nothing when handleLogin goes on
LoginRejection(u, p, w) ==
    IF CredentialsMissing(u, p)
    THEN <<AlertFx("Error", "Please enter both username and password")>>
    ELSE IF ~Truthy(w)
    THEN <<AlertFx("Server Connection Error",
                   "Cannot connect to the server. Please check your network connection and try again.")>>
    ELSE <<>>

\* handleLogin, from the press of the login button to its first await
HandleLogin ==
    /\ screen = "Login"
    /\ ~LoginButtonDisabled
    /\ IF LoginRejection(username, password, workingServerUrl) /= <<>>
       THEN /\ lastEffects' = LoginRejection(username, password, workingServerUrl)
            /\ UNCHANGED <<isLoading, pending>>
       ELSE LET req == LoginRequest(username, password)
            IN /\ isLoading' = TRUE
               /\ pending' = Append(pending, req)
               /\ lastEffects' = <<FetchFx("POST", req.url, req.path)>>
    /\ UNCHANGED <<resolverVars, username, password, storeVars, screen>>

RemoveAt(s, i) == SubSeq(s, 1, i - 1) \o SubSeq(s, i + 1, Len(s))

\* mutant: every caught value is reported with the generic text
CatchMessageGeneric(error) == "Something went wrong"

\* error instanceof Error ? error.message : 'Something went wrong'
CatchMessage(error) ==
    IF error.isError THEN error.message ELSE "Something went wrong"

\* mutant: there is no finally clause, the busy flag stays set after a failure
LoginCatchNoFinally(i, error) ==
    /\ lastEffects' = <<AlertFx("Login Failed", CatchMessage(error))>>
    /\ pending' = RemoveAt(pending, i)
    /\ UNCHANGED <<resolverVars, username, password, isLoading, storeVars, screen>>

\* catch (error) { Alert.alert('Login Failed', ...) } finally { setIsLoading(false) }
LoginCatch(i, error) ==
    /\ lastEffects' = <<AlertFx("Login Failed", CatchMessage(error))>>
    /\ isLoading' = FALSE
    /\ pending' = RemoveAt(pending, i)
    /\ UNCHANGED <<resolverVars, username, password, storeVars, screen>>

\* await fetch(`${workingServerUrl}/token`) settles: a response arrives, or
\* none does and the fetch rejects
LoginFetchSettles(i) ==
    /\ pending[i].pc = "fetch"
    /\ \/ \E r \in Responses :
            /\ pending' = [pending EXCEPT ![i].pc = "json", ![i].response = r]
            /\ UNCHANGED <<resolverVars, username, password, isLoading, storeVars,
                           screen, lastEffects>>
       \/ LoginCatch(i, NetworkError)

\* what the try block does with the response once its body has been read
Thrown(error) == [thrown |-> TRUE, error |-> error, token |-> Undefined]
Returned(t) == [thrown |-> FALSE, error |-> ErrorObj(""), token |-> t]

\* mutant: the check of response.ok is missing
LoginOutcomeNoStatusCheck(r) ==
    IF ~r.body.decodable THEN Thrown(JsonSyntaxError)
    ELSE Returned(r.body.access_token)

LoginOutcome(r) ==
    IF ~r.body.decodable THEN Thrown(JsonSyntaxError)
    ELSE IF ~r.ok THEN Thrown(ErrorObj(OrElse(r.body.detail, "Login failed")))
    ELSE Returned(r.body.access_token)

\* await response.json() settles, to the end of handleLogin
LoginJsonSettles(i) ==
    /\ pending[i].pc = "json"
    /\ LET out == LoginOutcome(pending[i].response)
       IN IF out.thrown
          THEN LoginCatch(i, out.error)
          ELSE /\ token' = StoreLogin(out.token).token
               /\ isAuthenticated' = StoreLogin(out.token).isAuthenticated
               /\ screen' = "Overview"
               /\ lastEffects' = <<LoginFx(out.token), NavigateFx("Overview")>>
               /\ isLoading' = FALSE
               /\ pending' = RemoveAt(pending, i)
               /\ UNCHANGED <<resolverVars, username, password>>

-----------------------------------------------------------------------------
(* Overview screen                                                         *)

\* mutant: logout also forgets the resolved endpoint
HandleLogoutResetsServer ==
    /\ screen = "Overview"
    /\ token' = StoreLogout.token
    /\ isAuthenticated' = StoreLogout.isAuthenticated
    /\ screen' = "Login"
    /\ lastEffects' = <<LogoutFx, NavigateFx("Login")>>
    /\ workingServerUrl' = Null
    /\ UNCHANGED <<env, pingResult, serverUrls, probeIdx, resolverPc, probed,
                   username, password, isLoading, pending>>

\* mutant: logout does not navigate
HandleLogoutStays ==
    /\ screen = "Overview"
    /\ token' = StoreLogout.token
    /\ isAuthenticated' = StoreLogout.isAuthenticated
    /\ lastEffects' = <<LogoutFx>>
    /\ UNCHANGED <<resolverVars, username, password, isLoading, pending, screen>>

\* handleLogout: logout(); navigation.navigate('Login')
HandleLogout ==
    /\ screen = "Overview"
    /\ token' = StoreLogout.token
    /\ isAuthenticated' = StoreLogout.isAuthenticated
    /\ screen' = "Login"
    /\ lastEffects' = <<LogoutFx, NavigateFx("Login")>>
    /\ UNCHANGED <<resolverVars, username, password, isLoading, pending>>

\* the back button of the stack header: Overview is popped, Login is shown again
GoBack ==
    /\ screen = "Overview"
    /\ screen' = "Login"
    /\ UNCHANGED <<resolverVars, username, password, isLoading, storeVars, pending,
                   lastEffects>>

-----------------------------------------------------------------------------
(* The program                                                             *)

\* The app has started: the store is created, RootStack shows Login, LoginScreen
\* is mounted and its effect has run findWorkingServer up to the first fetch.
Init ==
    /\ env \in Environments
    /\ serverUrls = getServerUrls(env)
    /\ pingResult \in [Range(serverUrls) -> PingOutcomes]
    /\ probeIdx = 1
    /\ resolverPc = "fetch"
    /\ probed = <<serverUrls[1]>>
    /\ workingServerUrl = Null
    /\ username = ""
    /\ password = ""
    /\ isLoading = FALSE
    /\ token = Null
    /\ isAuthenticated = FALSE
    /\ screen = "Login"
    /\ pending = <<>>
    /\ lastEffects = <<>>

Next ==
    \/ ProbeFetchSettles
    \/ ProbeJsonSettles
    \/ \E v \in Usernames : SetUsername(v)
    \/ \E v \in Passwords : SetPassword(v)
    \/ HandleLogin
    \/ \E i \in 1..Len(pending) : LoginFetchSettles(i)
    \/ \E i \in 1..Len(pending) : LoginJsonSettles(i)
    \/ HandleLogout
    \/ GoBack

Spec == Init /\ [][Next]_vars

-----------------------------------------------------------------------------
(* The network changes while the app runs                                  *)

\* GET <u>/ping starts to behave as o
NetworkChange(u, o) ==
    /\ pingResult[u] /= o
    /\ pingResult' = [pingResult EXCEPT ![u] = o]
    /\ UNCHANGED <<env, serverUrls, probeIdx, resolverPc, probed, workingServerUrl,
                   username, password, isLoading, storeVars, screen, pending,
                   lastEffects>>

NetNext ==
    \/ Next
    \/ \E u \in Range(serverUrls), o \in PingOutcomes : NetworkChange(u, o)

NetSpec == Init /\ [][NetNext]_vars

-----------------------------------------------------------------------------
(* The store on its own: useAuthStore is exported, any component may call  *)
(* its login and logout in any order. Here lastEffects holds all the calls *)
(* made so far, oldest first.                                              *)

MaxCalls == 4

StoreInit ==
    /\ Init
    /\ env = [OS |-> "ios", API_URL_EMULATOR |-> Undefined,
              API_URL_LOCAL |-> Undefined, API_URL_DEVICE |-> Undefined]
    /\ \A u \in Range(serverUrls) : pingResult[u] = "ok_json"

\* useAuthStore.getState().login(t)
StoreCallLogin(t) ==
    /\ Len(lastEffects) < MaxCalls
    /\ token' = StoreLogin(t).token
    /\ isAuthenticated' = StoreLogin(t).isAuthenticated
    /\ lastEffects' = Append(lastEffects, LoginFx(t))
    /\ UNCHANGED <<resolverVars, username, password, isLoading, screen, pending>>

\* useAuthStore.getState().logout()
StoreCallLogout ==
    /\ Len(lastEffects) < MaxCalls
    /\ token' = StoreLogout.token
    /\ isAuthenticated' = StoreLogout.isAuthenticated
    /\ lastEffects' = Append(lastEffects, LogoutFx)
    /\ UNCHANGED <<resolverVars, username, password, isLoading, screen, pending>>

StoreNext ==
    \/ \E t \in Tokens \cup {""} : StoreCallLogin(t)
    \/ StoreCallLogout

StoreSpec == StoreInit /\ [][StoreNext]_vars

-----------------------------------------------------------------------------
(* Properties                                                              *)

\* the activation i of handleLogin ends in this step
Ends(i) == pending' = RemoveAt(pending, i)

\* the activation i ends in this step without a response (the fetch rejected)
EndsWithoutResponse(i) == pending[i].pc = "fetch" /\ Ends(i)

\* the activation i ends in this step on a response with a failure status
EndsOnFailureStatus(i) ==
    pending[i].pc = "json" /\ ~pending[i].response.ok /\ Ends(i)

\* the activation i ends in this step on a success status and a JSON body
EndsOnSuccess(i) ==
    /\ pending[i].pc = "json"
    /\ pending[i].response.ok
    /\ pending[i].response.body.decodable
    /\ Ends(i)

\* the last handler run showed exactly one alert, with this message
AlertedNext(message) ==
    /\ Len(lastEffects') = 1
    /\ lastEffects'[1].op = "alert"
    /\ lastEffects'[1].y = message

AnyPasses == \E k \in 1..Len(serverUrls) : Passes(serverUrls[k])
FirstPassing ==
    CHOOSE k \in 1..Len(serverUrls) :
        Passes(serverUrls[k]) /\ \A j \in 1..(k - 1) : ~Passes(serverUrls[j])

\* C1: in every reachable state isAuthenticated is true if and only if token
\* is a non-empty string.
C1_AuthenticatedIffToken == isAuthenticated <=> Truthy(token)

\* C2: when at least one candidate passes the probe, the resolver never ends
\* without an endpoint, the endpoint it sets is the first passing candidate in
\* list order, and the probes issued are a prefix of the list that stops at
\* that candidate.
C2_FirstReachableWins ==
    AnyPasses =>
        /\ resolverPc \notin {"fellThrough", "rejected"}
        /\ workingServerUrl \in {Null, serverUrls[FirstPassing]}
        /\ resolverPc = "returned" <=> workingServerUrl = serverUrls[FirstPassing]
        /\ Len(probed) <= FirstPassing
        /\ probed = SubSeq(serverUrls, 1, Len(probed))

C2_Witness ==
    /\ Len(serverUrls) = 3
    /\ ~Passes(serverUrls[1])
    /\ Passes(serverUrls[2])
    /\ Passes(serverUrls[3])
    /\ resolverPc = "returned"
    /\ workingServerUrl = serverUrls[2]
    /\ probed = <<serverUrls[1], serverUrls[2]>>

\* C3: from the start of a login attempt to its end, no step other than the
\* successful end of the attempt changes token or isAuthenticated; so an
\* attempt that ends on a failure status, an undecodable body or no response
\* leaves the session as it was before the attempt.
C3_FailedLoginKeepsSession ==
    [][((pending /= <<>> \/ pending' /= <<>>)
          /\ ~(\E i \in 1..Len(pending) : EndsOnSuccess(i)))
        => (token' = token /\ isAuthenticated' = isAuthenticated)]_vars

C3_Witness ==
    /\ lastEffects = <<AlertFx("Login Failed", "Incorrect username or password")>>
    /\ pending = <<>>
    /\ token = Null
    /\ isAuthenticated = FALSE

\* C4: an attempt that ends on a success status and a body with access_token = t
\* leaves the session {token: t, isAuthenticated: true} and shows Overview, the
\* store's login(t) coming before the navigation.
C4_SuccessfulLoginSetsSession ==
    [][\A i \in 1..Len(pending) :
         (EndsOnSuccess(i) /\ pending[i].response.body.access_token /= Undefined)
         => LET t == pending[i].response.body.access_token
            IN /\ token' = t
               /\ isAuthenticated' = TRUE
               /\ lastEffects' = <<LoginFx(t), NavigateFx("Overview")>>
               /\ screen' = "Overview"]_vars

C4_Witness ==
    /\ token = "abc123"
    /\ isAuthenticated = TRUE
    /\ screen = "Overview"
    /\ lastEffects = <<LoginFx("abc123"), NavigateFx("Overview")>>

\* C5: a run of handleLogin with an empty username or an empty password issues
\* no request and leaves token and isAuthenticated as they were.
C5_EmptyCredentialsDoNothing ==
    [][(HandleLogin /\ (username = "" \/ password = ""))
        => /\ pending' = pending
           /\ \A k \in 1..Len(lastEffects') : lastEffects'[k].op /= "POST"
           /\ token' = token
           /\ isAuthenticated' = isAuthenticated]_vars

C5_Witness ==
    /\ lastEffects = <<AlertFx("Error", "Please enter both username and password")>>
    /\ isAuthenticated = TRUE
    /\ username = "johndoe"
    /\ password = ""

\* C6: the resolver never ends with an error; the probes issued are always the
\* candidates up to the current one, each failure having led to the next probe;
\* and when no candidate passes, the endpoint stays absent and the pass ends
\* only after every candidate was probed.
C6_ExhaustionYieldsAbsent ==
    /\ resolverPc /= "rejected"
    /\ probed = SubSeq(serverUrls, 1, probeIdx)
    /\ ~AnyPasses =>
         /\ workingServerUrl = Null
         /\ resolverPc \in {"fetch", "json", "fellThrough"}
         /\ resolverPc = "fellThrough" => probed = serverUrls

C6_Witness ==
    /\ Len(serverUrls) = 3
    /\ pingResult[serverUrls[1]] = "error"
    /\ pingResult[serverUrls[2]] = "notok"
    /\ pingResult[serverUrls[3]] = "ok_badjson"
    /\ resolverPc = "fellThrough"
    /\ workingServerUrl = Null

\* C7: at most one activation of handleLogin is suspended on its POST /token
\* exchange at any time.
C7_OneLoginInFlight == Len(pending) <= 1

C7_Witness ==
    /\ Len(pending) = 1
    /\ pending[1].pc = "fetch"
    /\ isLoading = TRUE
    /\ isAuthenticated = TRUE

\* C8: whenever a POST /token exchange is outstanding, the resolver has
\* returned with an endpoint and the exchange targets that endpoint's /token.
C8_PostOnlyToResolvedEndpoint ==
    \A i \in 1..Len(pending) :
        /\ resolverPc = "returned"
        /\ Truthy(workingServerUrl)
        /\ pending[i].url = workingServerUrl
        /\ pending[i].path = "/token"

C8_Witness ==
    /\ Len(pending) = 1
    /\ Len(serverUrls) = 3
    /\ pending[1].url = serverUrls[3]

\* C9: an attempt that ends on a failure status shows one alert whose message
\* is the body's detail when the body has one, and 'Login failed' otherwise
\* (no detail field, or a body that is not JSON).
C9_FailureMessage ==
    [][\A i \in 1..Len(pending) :
         EndsOnFailureStatus(i)
         => LET b == pending[i].response.body
            IN AlertedNext(IF b.decodable /\ b.detail /= Undefined
                           THEN b.detail
                           ELSE "Login failed")]_vars

\* C10 as stated: an attempt that ends without a response shows the
\* 'Something went wrong' message and leaves the session unchanged.
C10_TransportFailureGeneric ==
    [][\A i \in 1..Len(pending) :
         EndsWithoutResponse(i)
         => /\ AlertedNext("Something went wrong")
            /\ token' = token
            /\ isAuthenticated' = isAuthenticated]_vars

\* C10 as amended: an attempt that ends without a response shows one alert
\* titled 'Login Failed' whose message is the message of the error the fetch
\* rejected with, not 'Something went wrong', and leaves the session unchanged.
C10_TransportFailureMessage ==
    [][\A i \in 1..Len(pending) :
         EndsWithoutResponse(i)
         => /\ lastEffects' = <<AlertFx("Login Failed", "Network request failed")>>
            /\ ~AlertedNext("Something went wrong")
            /\ token' = token
            /\ isAuthenticated' = isAuthenticated]_vars

C10_Witness ==
    /\ lastEffects = <<AlertFx("Login Failed", "Network request failed")>>
    /\ pending = <<>>
    /\ isLoading = FALSE

\* C11 as stated: the rejection a run of handleLogin shows for an empty
\* username differs from the one it gives for an empty password and from the
\* one it gives for an absent endpoint.
C11_DistinctRejections ==
    [][(HandleLogin /\ username = "" /\ password /= "")
        => /\ \A u \in Usernames \ {""} :
                lastEffects' /= LoginRejection(u, "", workingServerUrl)
           /\ \A u \in Usernames \ {""} :
                lastEffects' /= LoginRejection(u, password, Null)]_vars

\* C11 as amended: every run of handleLogin with an empty username or an empty
\* password shows the same single 'Error' alert; handleLogin never runs while
\* the endpoint is absent (the button is disabled), so its 'Server Connection
\* Error' alert is never shown.
C11_RejectionsShown ==
    [][HandleLogin
        => /\ Truthy(workingServerUrl)
           /\ (username = "" \/ password = "")
                => lastEffects' = <<AlertFx("Error", "Please enter both username and password")>>
           /\ \A k \in 1..Len(lastEffects') :
                lastEffects'[k].x /= "Server Connection Error"]_vars

C11_Witness ==
    /\ lastEffects = <<AlertFx("Error", "Please enter both username and password")>>
    /\ username = ""
    /\ password = "password123"
    /\ Truthy(workingServerUrl)

\* C14: a resolution pass that has not ended can always take its next step:
\* the probe it waits for settles, so a candidate that never answers is given
\* up and the next one is probed.
C14_ProbeAlwaysSettles ==
    resolverPc \in {"fetch", "json"} => ENABLED (ProbeFetchSettles \/ ProbeJsonSettles)

\* the last call made on the store, under StoreSpec
LastCall == lastEffects[Len(lastEffects)]

\* C12: whatever was called on the store before, after login(t) with a
\* non-empty t the store is exactly {token: t, isAuthenticated: true}.
C12_LoginOverwrites ==
    (lastEffects /= <<>> /\ LastCall.op = "login" /\ Truthy(LastCall.x))
        => (token = LastCall.x /\ isAuthenticated = TRUE)

C12_Witness ==
    /\ lastEffects = <<LoginFx("abc123"), LoginFx("tok2")>>
    /\ token = "tok2"
    /\ isAuthenticated = TRUE

\* C13: whatever was called on the store before (nothing, logout, one login or
\* several), after logout() the store is exactly the initial state
\* {token: null, isAuthenticated: false}; a second logout leaves it there.
C13_LogoutResets ==
    (lastEffects /= <<>> /\ LastCall.op = "logout")
        => (token = Null /\ isAuthenticated = FALSE)

C13_Witness ==
    /\ lastEffects = <<LoginFx("abc123"), LoginFx("tok2"), LogoutFx, LogoutFx>>
    /\ token = Null
    /\ isAuthenticated = FALSE

\* C15: logout never runs while a login attempt is in flight, and token and
\* isAuthenticated change only by logout or by the successful end of an
\* attempt; so after a logout the session stays {null, false} until an
\* attempt started after it succeeds, no earlier attempt being left to answer.
C15_NoStaleLoginAfterLogout ==
    [][/\ HandleLogout
            => (pending = <<>> /\ pending' = <<>>
                  /\ token' = Null /\ isAuthenticated' = FALSE)
       /\ (token' /= token \/ isAuthenticated' /= isAuthenticated)
            => (HandleLogout \/ \E i \in 1..Len(pending) : EndsOnSuccess(i))]_vars

C15_Witness ==
    /\ lastEffects = <<LogoutFx, NavigateFx("Login")>>
    /\ pending = <<>>
    /\ isLoading = FALSE
    /\ screen = "Login"
    /\ token = Null
    /\ isAuthenticated = FALSE

\* C16: the step that ends a login attempt clears the busy flag, on every
\* outcome; when the attempt failed it shows exactly one alert and leaves the
\* login button enabled on the Login screen.
C16_BusyFlagCleared ==
    [][\A i \in 1..Len(pending) :
         Ends(i)
         => /\ isLoading' = FALSE
            /\ ~EndsOnSuccess(i)
                 => /\ Len(lastEffects') = 1
                    /\ lastEffects'[1].op = "alert"
                    /\ screen' = "Login"
                    /\ ~LoginButtonDisabled']_vars

C16_Witness ==
    /\ lastEffects = <<AlertFx("Login Failed", "Login failed")>>
    /\ pending = <<>>
    /\ isLoading = FALSE
    /\ ENABLED HandleLogin

\* C17: once the resolved endpoint is set, no step changes or clears it.
C17_EndpointAssignedOnce ==
    [][Truthy(workingServerUrl) => workingServerUrl' = workingServerUrl]_vars

C17_Witness ==
    /\ resolverPc = "returned"
    /\ Truthy(workingServerUrl)
    /\ lastEffects = <<LogoutFx, NavigateFx("Login")>>
    /\ username = "johndoe"

\* C18: whenever Overview is the current screen, isAuthenticated is true.
C18_OverviewImpliesAuthenticated == screen = "Overview" => isAuthenticated = TRUE

C18_Witness ==
    /\ screen = "Overview"
    /\ isAuthenticated = TRUE
    /\ token = Undefined

\* C19: the pass is not run again once it has ended; after a pass that ended
\* with no candidate passing, the endpoint stays absent, the login button stays
\* disabled and no POST /token is issued, whatever the network does later.
C19_ExhaustedPassStaysAbsent ==
    [][/\ resolverPc \in {"returned", "fellThrough"}
            => UNCHANGED <<resolverPc, probeIdx, probed, workingServerUrl>>
       /\ resolverPc = "fellThrough"
            => /\ workingServerUrl = Null
               /\ LoginButtonDisabled
               /\ ~HandleLogin
               /\ pending = <<>>
               /\ pending' = <<>>]_vars

C19_Witness ==
    /\ resolverPc = "fellThrough"
    /\ Passes(serverUrls[1])
    /\ workingServerUrl = Null
    /\ username = "johndoe"
    /\ password = "password123"
    /\ pending = <<>>

\* the list before the duplicates are removed, each unset value replaced by
\* its fallback
ExpectedUrls(e) ==
    (IF e.OS = "android"
     THEN <<IF e.API_URL_EMULATOR = Undefined THEN FallbackEmulator
            ELSE e.API_URL_EMULATOR>>
     ELSE <<>>)
      \o <<IF e.API_URL_LOCAL = Undefined THEN FallbackLocal ELSE e.API_URL_LOCAL>>
      \o <<IF e.API_URL_DEVICE = Undefined THEN FallbackDevice ELSE e.API_URL_DEVICE>>

FirstIndex(s, x) == CHOOSE i \in 1..Len(s) : s[i] = x /\ \A j \in 1..(i - 1) : s[j] /= x

\* C20: the candidate list is not empty, has no entry twice, holds exactly the
\* emulator (on android), local and device addresses with fallbacks for the
\* unset ones, and keeps them in the order of their first occurrence.
C20_CandidateList ==
    LET raw == ExpectedUrls(env)
    IN /\ Len(serverUrls) >= 1
       /\ \A i, j \in 1..Len(serverUrls) : i /= j => serverUrls[i] /= serverUrls[j]
       /\ Range(serverUrls) = Range(raw)
       /\ \A i, j \in 1..Len(serverUrls) :
            i < j => FirstIndex(raw, serverUrls[i]) < FirstIndex(raw, serverUrls[j])

C20_Witness ==
    /\ env.OS = "android"
    /\ env.API_URL_EMULATOR = CustomUrl
    /\ env.API_URL_LOCAL = Undefined
    /\ env.API_URL_DEVICE = CustomUrl
    /\ serverUrls = <<CustomUrl, FallbackLocal>>
    /\ resolverPc = "returned"

====
